---------------------------- MODULE Spec2Model ----------------------------
(***************************************************************************)
(* Model of koyeb/sandbox/filesystem.py: the filesystem facade of a Koyeb  *)
(* sandbox (SandboxFilesystem, AsyncSandboxFilesystem) and its file        *)
(* handles (SandboxFileIO, AsyncSandboxFileIO), over the two collaborators *)
(* it calls: the sandbox HTTP client and the command executor.             *)
(*                                                                         *)
(* Representation.  A Python str that is file content is a sequence of     *)
(* code points, a bytes object a sequence of byte values, and the two are  *)
(* kept apart by a tag ([t |-> "str"] / [t |-> "bytes"]).  A command       *)
(* string and a path, as the shell sees them, are sequences of one-        *)
(* character strings.  An error text is a sequence of words.               *)
(***************************************************************************)
EXTENDS Integers, Sequences, FiniteSets, TLC

VARIABLES
    world,      \* the sandbox's filesystem and the local disk
    handles,    \* the file handles the caller has opened
    last,       \* the call just made: operation, arguments, outcome
    twin,       \* the same call on the facade of the other kind
    callers     \* the callers that write to one path at the same time

vars == <<world, handles, last, twin, callers>>

----------------------------------------------------------------------------
(* Bounds of the model. *)

MaxHandles == 1     \* handles the caller opens
MaxFiles == 2       \* entries of a write_files list
MaxLen == 2         \* longest content an appending write builds
MaxBatch == 3       \* entries of a write_files list, where only it is called
MaxCallers == 2     \* callers that write to one path at the same time

----------------------------------------------------------------------------
(* Error texts and their classification (koyeb/sandbox/utils.py). *)

LowerWord(x) ==
    CASE x = "File" -> "file"
      [] x = "NOT" -> "not"
      [] x = "Exists" -> "exists"
      [] x = "Directory" -> "directory"
      [] OTHER -> x

Lower(t) == [i \in 1..Len(t) |-> LowerWord(t[i])]

Contains(t, m) ==
    \E i \in 0..(Len(t) - Len(m)) : SubSeq(t, i + 1, i + Len(m)) = m

ERROR_MESSAGES(type) ==
    CASE type = "NO_SUCH_FILE" -> <<"file", "does", "not", "exist">>
      [] type = "FILE_EXISTS" -> <<"file", "already", "exists">>
      [] type = "DIR_NOT_EMPTY" -> <<"directory", "not", "empty">>
      [] OTHER -> <<>>

KnownTypes == {"NO_SUCH_FILE", "FILE_EXISTS", "DIR_NOT_EMPTY"}

check_error_message(error_msg, type) ==
    /\ type \in KnownTypes
    /\ Contains(Lower(error_msg), Lower(ERROR_MESSAGES(type)))

TxtNoFile == <<"open:", "File", "does", "NOT", "exist">>
TxtExists == <<"mkdir:", "file", "already", "Exists">>
TxtNotEmpty == <<"rmdir:", "Directory", "not", "empty">>
TxtGone == <<"file", "does", "not", "exist", "Directory", "not", "empty">>
TxtIsDir == <<"is", "a", "directory">>
TxtNotDir == <<"not", "a", "directory">>
TxtDenied == <<"permission", "denied">>
TxtBadPath == <<"invalid", "path">>
TxtTransport == <<"Command", "execution", "failed">>
TxtNoCommand == <<"command", "not", "found">>

----------------------------------------------------------------------------
(* Text and bytes: UTF-8 and base64. *)

Str(v) == [t |-> "str", v |-> v]
Bytes(v) == [t |-> "bytes", v |-> v]

IsCont(b) == b >= 128 /\ b <= 191

\* bytes.decode("utf-8") for sequences of one- and two-byte characters; any
\* other byte is a decoding error.
RECURSIVE Utf8Decode(_)
Utf8Decode(b) ==
    IF b = <<>> THEN [ok |-> TRUE, v |-> <<>>]
    ELSE IF b[1] < 128
    THEN LET r == Utf8Decode(Tail(b))
         IN  [ok |-> r.ok, v |-> IF r.ok THEN <<b[1]>> \o r.v ELSE <<>>]
    ELSE IF b[1] >= 194 /\ b[1] <= 223 /\ Len(b) >= 2 /\ IsCont(b[2])
    THEN LET r == Utf8Decode(Tail(Tail(b)))
         IN  [ok |-> r.ok,
              v |-> IF r.ok THEN <<(b[1] - 192) * 64 + (b[2] - 128)>> \o r.v
                    ELSE <<>>]
    ELSE [ok |-> FALSE, v |-> <<>>]

\* str.encode("utf-8") for code points below 2048.
RECURSIVE Utf8Encode(_)
Utf8Encode(s) ==
    IF s = <<>> THEN <<>>
    ELSE IF s[1] < 128 THEN <<s[1]>> \o Utf8Encode(Tail(s))
    ELSE <<192 + (s[1] \div 64), 128 + (s[1] % 64)>> \o Utf8Encode(Tail(s))

\* The base64 alphabet: the code point of the digit of value n.
B64Char(n) ==
    IF n < 26 THEN 65 + n
    ELSE IF n < 52 THEN 97 + (n - 26)
    ELSE IF n < 62 THEN 48 + (n - 52)
    ELSE IF n = 62 THEN 43 ELSE 47

IsB64(c) ==
    \/ c >= 65 /\ c <= 90
    \/ c >= 97 /\ c <= 122
    \/ c >= 48 /\ c <= 57
    \/ c \in {43, 47}

B64Val(c) ==
    IF c >= 65 /\ c <= 90 THEN c - 65
    ELSE IF c >= 97 /\ c <= 122 THEN c - 97 + 26
    ELSE IF c >= 48 /\ c <= 57 THEN c - 48 + 52
    ELSE IF c = 43 THEN 62 ELSE 63

Pad == B64Char(0) - 4          \* the code point of "="

\* base64.b64encode(b).decode("ascii")
RECURSIVE B64Encode(_)
B64Encode(b) ==
    IF b = <<>> THEN <<>>
    ELSE IF Len(b) = 1
    THEN <<B64Char(b[1] \div 4), B64Char((b[1] % 4) * 16), Pad, Pad>>
    ELSE IF Len(b) = 2
    THEN <<B64Char(b[1] \div 4),
           B64Char((b[1] % 4) * 16 + (b[2] \div 16)),
           B64Char((b[2] % 16) * 4), Pad>>
    ELSE <<B64Char(b[1] \div 4),
           B64Char((b[1] % 4) * 16 + (b[2] \div 16)),
           B64Char((b[2] % 16) * 4 + (b[3] \div 64)),
           B64Char(b[3] % 64)>> \o B64Encode(SubSeq(b, 4, Len(b)))

RECURSIVE B64Keep(_)
B64Keep(s) ==
    IF s = <<>> THEN <<>>
    ELSE IF IsB64(s[1]) \/ s[1] = Pad THEN <<s[1]>> \o B64Keep(Tail(s))
    ELSE B64Keep(Tail(s))

RECURSIVE B64Quads(_)
B64Quads(s) ==
    IF s = <<>> THEN [ok |-> TRUE, v |-> <<>>]
    ELSE IF Len(s) < 4 \/ s[1] = Pad \/ s[2] = Pad
    THEN [ok |-> FALSE, v |-> <<>>]
    ELSE LET a == B64Val(s[1])
             b == B64Val(s[2])
             b1 == a * 4 + (b \div 16)
         IN  IF s[3] = Pad
             THEN [ok |-> s[4] = Pad, v |-> <<b1>>]
             ELSE IF s[4] = Pad
             THEN [ok |-> TRUE,
                   v |-> <<b1, (b % 16) * 16 + (B64Val(s[3]) \div 4)>>]
             ELSE LET r == B64Quads(SubSeq(s, 5, Len(s)))
                  IN  [ok |-> r.ok,
                       v |-> IF r.ok
                             THEN <<b1, (b % 16) * 16 + (B64Val(s[3]) \div 4),
                                    (B64Val(s[3]) % 4) * 64 + B64Val(s[4])>>
                                  \o r.v
                             ELSE <<>>]

\* base64.b64decode(s) of a str: a non-ASCII character is a ValueError, the
\* characters outside the alphabet are dropped, bad padding is a binascii.Error.
B64Decode(s) ==
    IF \E i \in 1..Len(s) : s[i] >= 128
    THEN [ok |-> FALSE, exc |-> "ValueError", v |-> <<>>]
    ELSE LET r == B64Quads(B64Keep(s))
         IN  [ok |-> r.ok, exc |-> IF r.ok THEN "none" ELSE "binascii.Error",
              v |-> r.v]

----------------------------------------------------------------------------
(* The sandbox: what lives behind the two collaborators. *)

RemotePaths == {"/d", "/d/f"}
BlankPaths == {"", " "}
PathArgs == RemotePaths \cup BlankPaths

\* Paths that hold shell syntax: a second command behind a semicolon, and the
\* same behind a closing single or double quote.
InjectPaths == {"/d;rm -rf /d", "';rm -rf /d;'", "\";rm -rf /d;\""}
ShellPaths == RemotePaths \cup InjectPaths
LocalPaths == {"in.txt", "bin.dat", "gone", "out"}
UploadPaths == {"in.txt", "bin.dat", "gone"}
NoFile == Bytes(<<-1>>)

Chars(p) ==
    CASE p = "/d" -> <<"/", "d">>
      [] p = "/d/f" -> <<"/", "d", "/", "f">>
      [] p = " " -> <<" ">>
      [] p = "/d;rm -rf /d"
           -> <<"/", "d", ";", "r", "m", " ", "-", "r", "f", " ", "/", "d">>
      [] p = "';rm -rf /d;'"
           -> <<"'", ";", "r", "m", " ", "-", "r", "f", " ", "/", "d", ";",
                "'">>
      [] p = "\";rm -rf /d;\""
           -> <<"\"", ";", "r", "m", " ", "-", "r", "f", " ", "/", "d", ";",
                "\"">>
      [] OTHER -> <<>>

PathOf(cs) ==
    IF \E p \in PathArgs \cup InjectPaths : Chars(p) = cs
    THEN CHOOSE p \in PathArgs \cup InjectPaths : Chars(p) = cs
    ELSE "?"

Parent(p) == IF p = "/d/f" THEN "/d" ELSE "/"

NodeOf(w, p) == IF p \in RemotePaths THEN w.node[p] ELSE "none"

ParentOk(w, p) == Parent(p) = "/" \/ NodeOf(w, Parent(p)) = "dir"

Children(w, p) ==
    {q \in RemotePaths : Parent(q) = p /\ w.node[q] # "none"}

Below(p) == {q \in RemotePaths : q = p \/ Parent(q) = p}

Name(p) == IF p = "/d/f" THEN "f" ELSE "d"

RECURSIVE SetToSeq(_)
SetToSeq(S) ==
    IF S = {} THEN <<>>
    ELSE LET x == CHOOSE y \in S : TRUE
         IN  <<Name(x)>> \o SetToSeq(S \ {x})

Put(w, p, kind, text) ==
    [w EXCEPT !.node[p] = kind, !.data[p] = text]

Drop(w, S) ==
    [w EXCEPT !.node = [q \in RemotePaths |-> IF q \in S THEN "none" ELSE @[q]],
              !.data = [q \in RemotePaths |-> IF q \in S THEN <<>> ELSE @[q]]]

\* A collaborator's answer: a response (whose error is empty when there is
\* none), or an exception raised by the call.
Resp(w, error, content, entries) ==
    [t |-> "resp", error |-> error, content |-> content, entries |-> entries,
     exc |-> "none", text |-> <<>>, w |-> w]

Raised(w, exc, text) ==
    [t |-> "raise", error |-> <<>>, content |-> <<>>, entries |-> <<>>,
     exc |-> exc, text |-> text, w |-> w]

Done(w) == Resp(w, <<>>, <<>>, <<>>)
Fail(w, text) == Resp(w, text, <<>>, <<>>)

RemoteWrite(w, p, text) ==
    IF p \notin RemotePaths THEN Fail(w, TxtBadPath)
    ELSE IF w.node[p] = "dir" THEN Fail(w, TxtIsDir)
    ELSE IF ~ParentOk(w, p) THEN Fail(w, TxtNoFile)
    ELSE Done(Put(w, p, "file", text))

RemoteRead(w, p) ==
    IF NodeOf(w, p) = "none" THEN Fail(w, TxtNoFile)
    ELSE IF w.node[p] = "dir" THEN Fail(w, TxtIsDir)
    ELSE Resp(w, <<>>, w.data[p], <<>>)

RemoteMakeDir(w, p) ==
    IF p \notin RemotePaths THEN Fail(w, TxtBadPath)
    ELSE IF w.node[p] # "none" THEN Fail(w, TxtExists)
    ELSE IF Parent(p) # "/" /\ w.node[Parent(p)] = "file"
    THEN Fail(w, TxtNotDir)
    ELSE IF Parent(p) = "/" THEN Done(Put(w, p, "dir", <<>>))
    ELSE Done(Put(Put(w, Parent(p), "dir", <<>>), p, "dir", <<>>))

RemoteListDir(w, p) ==
    IF NodeOf(w, p) = "none" THEN Fail(w, TxtNoFile)
    ELSE IF w.node[p] = "file" THEN Fail(w, TxtNotDir)
    ELSE Resp(w, <<>>, <<>>, SetToSeq(Children(w, p)))

RemoteDeleteFile(w, p) ==
    IF NodeOf(w, p) = "none" THEN Fail(w, TxtNoFile)
    ELSE IF w.node[p] = "dir" THEN Fail(w, TxtIsDir)
    ELSE Done(Drop(w, {p}))

RemoteDeleteDir(w, p) ==
    IF NodeOf(w, p) = "none" THEN Fail(w, TxtNoFile)
    ELSE IF w.node[p] = "file" THEN Fail(w, TxtNotDir)
    ELSE IF Children(w, p) # {} THEN Fail(w, TxtNotEmpty)
    ELSE Done(Drop(w, {p}))

\* What a call to the HTTP client does, under the fault f of this call.
NoFault == [t |-> "none", exc |-> "none", text |-> <<>>]
ErrFault(text) == [t |-> "error", exc |-> "none", text |-> text]
RaiseFault(exc, text) == [t |-> "raise", exc |-> exc, text |-> text]

ClientCall(w, api, args, f) ==
    IF f.t = "error" THEN Fail(w, f.text)
    ELSE IF f.t = "raise" THEN Raised(w, f.exc, f.text)
    ELSE CASE api = "write_file" -> RemoteWrite(w, args[1], args[2])
           [] api = "read_file" -> RemoteRead(w, args[1])
           [] api = "make_dir" -> RemoteMakeDir(w, args[1])
           [] api = "list_dir" -> RemoteListDir(w, args[1])
           [] api = "delete_file" -> RemoteDeleteFile(w, args[1])
           [] OTHER -> RemoteDeleteDir(w, args[1])

Call(api, args) == [api |-> api, args |-> args]

----------------------------------------------------------------------------
(* The shell behind the command executor. *)

escape_quote(c) == IF c = "'" THEN <<"'", "\"", "'", "\"", "'">> ELSE <<c>>

RECURSIVE escape_body(_)
escape_body(s) ==
    IF s = <<>> THEN <<>> ELSE escape_quote(s[1]) \o escape_body(Tail(s))

escape_shell_arg(s) == <<"'">> \o escape_body(s) \o <<"'">>

Flush(words, cur, has) == IF has THEN Append(words, cur) ELSE words

EndCmd(cmds, words) == IF words = <<>> THEN cmds ELSE Append(cmds, words)

\* The shell's reading of a command line: the commands a line holds, each the
\* sequence of its words, quotes removed.
RECURSIVE Lex(_, _, _, _, _, _)
Lex(s, q, cur, has, words, cmds) ==
    IF s = <<>> THEN EndCmd(cmds, Flush(words, cur, has))
    ELSE LET c == s[1]
             r == Tail(s)
         IN  IF q # ""
             THEN IF c = q THEN Lex(r, "", cur, TRUE, words, cmds)
                  ELSE Lex(r, q, Append(cur, c), TRUE, words, cmds)
             ELSE IF c = "'" \/ c = "\"" THEN Lex(r, c, cur, TRUE, words, cmds)
             ELSE IF c = " "
             THEN Lex(r, "", <<>>, FALSE, Flush(words, cur, has), cmds)
             ELSE IF c = ";"
             THEN Lex(r, "", <<>>, FALSE, <<>>,
                      EndCmd(cmds, Flush(words, cur, has)))
             ELSE Lex(r, "", Append(cur, c), TRUE, words, cmds)

ShellParse(cmd) == Lex(cmd, "", <<>>, FALSE, <<>>, <<>>)

MV == <<"m", "v">>
RM == <<"r", "m">>
TEST == <<"t", "e", "s", "t">>
FlagRF == <<"-", "r", "f">>
FlagE == <<"-", "e">>
FlagF == <<"-", "f">>
FlagD == <<"-", "d">>
SP == <<" ">>

Ran(w, success, stderr) == [w |-> w, success |-> success, stderr |-> stderr]

ShMv(w, src, dst) ==
    IF NodeOf(w, src) = "none" THEN Ran(w, FALSE, TxtNoFile)
    ELSE IF dst \notin RemotePaths \/ ~ParentOk(w, dst)
    THEN Ran(w, FALSE, TxtNoFile)
    ELSE IF src = dst \/ w.node[src] = "dir" \/ w.node[dst] = "dir"
    THEN Ran(w, FALSE, TxtDenied)
    ELSE Ran(Put(Drop(w, {src}), dst, "file", w.data[src]), TRUE, <<>>)

ShRm(w, p) ==
    IF NodeOf(w, p) = "none" THEN Ran(w, FALSE, TxtNoFile)
    ELSE IF w.node[p] = "dir" THEN Ran(w, FALSE, TxtIsDir)
    ELSE Ran(Drop(w, {p}), TRUE, <<>>)

ShRmRf(w, p) == Ran(Drop(w, Below(p)), TRUE, <<>>)

ShTest(w, flag, p) ==
    LET n == NodeOf(w, p)
    IN  Ran(w, IF flag = FlagE THEN n # "none"
               ELSE IF flag = FlagF THEN n = "file" ELSE n = "dir", <<>>)

ShRun(w, argv) ==
    IF argv[1] = MV /\ Len(argv) = 3
    THEN ShMv(w, PathOf(argv[2]), PathOf(argv[3]))
    ELSE IF argv[1] = RM /\ Len(argv) = 3 /\ argv[2] = FlagRF
    THEN ShRmRf(w, PathOf(argv[3]))
    ELSE IF argv[1] = RM /\ Len(argv) = 2 THEN ShRm(w, PathOf(argv[2]))
    ELSE IF argv[1] = TEST /\ Len(argv) = 3 /\ argv[2] \in {FlagE, FlagF, FlagD}
    THEN ShTest(w, argv[2], PathOf(argv[3]))
    ELSE Ran(w, FALSE, TxtNoCommand)

RECURSIVE ShSeq(_, _, _)
ShSeq(w, cmds, acc) ==
    IF cmds = <<>> THEN acc
    ELSE LET r == ShRun(w, cmds[1])
         IN  ShSeq(r.w, Tail(cmds), Ran(r.w, r.success, acc.stderr \o r.stderr))

\* SandboxExecutor.__call__: the command's CommandResult; a failure to reach
\* the sandbox is a failed CommandResult too.
Executor(w, cmd, f) ==
    IF f.t # "none" THEN Ran(w, FALSE, TxtTransport)
    ELSE ShSeq(w, ShellParse(cmd), Ran(w, TRUE, <<>>))

----------------------------------------------------------------------------
(* Outcomes.  A call ends with a value or with a raised exception; the model *)
(* keeps the collaborator calls it issued and the world it leaves.           *)

Ok(v) ==
    [status |-> "ok", exc |-> "none", msg |-> <<>>, cause |-> "none",
     value |-> v]

Raise(exc, msg, cause) ==
    [status |-> "raise", exc |-> exc, msg |-> msg, cause |-> cause,
     value |-> "none"]

Out(res, calls, w) == [res |-> res, calls |-> calls, w |-> w]

FileInfo(content, encoding) == [content |-> content, encoding |-> encoding]

\* isinstance(e, SandboxFilesystemError): the class and its two subclasses.
SandboxFilesystemError ==
    {"SandboxFilesystemError", "SandboxFileNotFoundError",
     "SandboxFileExistsError"}

Get(d, k, default) == IF k \in DOMAIN d THEN d[k] ELSE default

----------------------------------------------------------------------------
(* SandboxFilesystem. *)

\* write_file that sends a str as base64 text when the encoding is base64.
write_file_encoded(w, path, content, encoding, f) ==
    IF content.t = "bytes" /\ ~Utf8Decode(content.v).ok
    THEN Out(Raise("UnicodeDecodeError", <<>>, "none"), <<>>, w)
    ELSE LET text == IF content.t = "bytes"
                     THEN Utf8Decode(content.v).v ELSE content.v
             content_str == IF encoding = "base64"
                            THEN B64Encode(Utf8Encode(text)) ELSE text
             r == ClientCall(w, "write_file", <<path, content_str>>, f)
             calls == <<Call("write_file", <<path, content_str>>)>>
         IN  IF r.t = "raise" \/ r.error # <<>>
             THEN Out(Raise("SandboxFilesystemError",
                            <<"Failed to write file:">>, "none"), calls, r.w)
             ELSE Out(Ok("None"), calls, r.w)

write_file(w, path, content, encoding, f) ==
    IF content.t = "bytes" /\ ~Utf8Decode(content.v).ok
    THEN Out(Raise("UnicodeDecodeError", <<>>, "none"), <<>>, w)
    ELSE LET content_str == IF content.t = "bytes"
                            THEN Utf8Decode(content.v).v ELSE content.v
             r == ClientCall(w, "write_file", <<path, content_str>>, f)
             calls == <<Call("write_file", <<path, content_str>>)>>
         IN  IF r.t = "raise"
             THEN IF r.exc \in SandboxFilesystemError
                  THEN Out(Raise(r.exc, r.text, "none"), calls, r.w)
                  ELSE Out(Raise("SandboxFilesystemError",
                                 <<"Failed to write file:">> \o r.text, r.exc),
                           calls, r.w)
             ELSE IF r.error # <<>>
             THEN Out(Raise("SandboxFilesystemError",
                            <<"Failed to write file:">> \o r.error, "none"),
                      calls, r.w)
             ELSE Out(Ok("None"), calls, r.w)

\* read_file with every reported error raised as the generic failure.
read_file_unclassified(w, path, encoding, f) ==
    LET r == ClientCall(w, "read_file", <<path>>, f)
        calls == <<Call("read_file", <<path>>)>>
    IN  IF r.t = "raise"
        THEN IF r.exc \in SandboxFilesystemError
             THEN Out(Raise(r.exc, r.text, "none"), calls, r.w)
             ELSE Out(Raise("SandboxFilesystemError",
                            <<"Failed to read file:">> \o r.text, r.exc),
                      calls, r.w)
        ELSE IF r.error # <<>>
        THEN Out(Raise("SandboxFilesystemError",
                       <<"Failed to read file:">> \o r.error, "none"),
                 calls, r.w)
        ELSE Out(Ok(FileInfo(r.content, encoding)), calls, r.w)

read_file(w, path, encoding, f) ==
    LET r == ClientCall(w, "read_file", <<path>>, f)
        calls == <<Call("read_file", <<path>>)>>
    IN  IF r.t = "raise"
        THEN IF r.exc \in SandboxFilesystemError
             THEN Out(Raise(r.exc, r.text, "none"), calls, r.w)
             ELSE IF check_error_message(r.text, "NO_SUCH_FILE")
             THEN Out(Raise("SandboxFileNotFoundError",
                            <<"File not found:", path>>, r.exc), calls, r.w)
             ELSE Out(Raise("SandboxFilesystemError",
                            <<"Failed to read file:">> \o r.text, r.exc),
                      calls, r.w)
        ELSE IF r.error # <<>>
        THEN IF check_error_message(r.error, "NO_SUCH_FILE")
             THEN Out(Raise("SandboxFileNotFoundError",
                            <<"File not found:", path>>, "none"), calls, r.w)
             ELSE Out(Raise("SandboxFilesystemError",
                            <<"Failed to read file:">> \o r.error, "none"),
                      calls, r.w)
        ELSE Out(Ok(FileInfo(r.content, encoding)), calls, r.w)

mkdir(w, path, recursive, f) ==
    LET r == ClientCall(w, "make_dir", <<path>>, f)
        calls == <<Call("make_dir", <<path>>)>>
    IN  IF r.t = "raise"
        THEN IF r.exc \in SandboxFilesystemError
             THEN Out(Raise(r.exc, r.text, "none"), calls, r.w)
             ELSE IF check_error_message(r.text, "FILE_EXISTS")
             THEN Out(Raise("SandboxFileExistsError",
                            <<"Directory already exists:", path>>, r.exc),
                      calls, r.w)
             ELSE Out(Raise("SandboxFilesystemError",
                            <<"Failed to create directory:">> \o r.text, r.exc),
                      calls, r.w)
        ELSE IF r.error # <<>>
        THEN IF check_error_message(r.error, "FILE_EXISTS")
             THEN Out(Raise("SandboxFileExistsError",
                            <<"Directory already exists:", path>>, "none"),
                      calls, r.w)
             ELSE Out(Raise("SandboxFilesystemError",
                            <<"Failed to create directory:">> \o r.error,
                            "none"), calls, r.w)
        ELSE Out(Ok("None"), calls, r.w)

list_dir(w, path, f) ==
    LET r == ClientCall(w, "list_dir", <<path>>, f)
        calls == <<Call("list_dir", <<path>>)>>
    IN  IF r.t = "raise"
        THEN IF r.exc \in SandboxFilesystemError
             THEN Out(Raise(r.exc, r.text, "none"), calls, r.w)
             ELSE IF check_error_message(r.text, "NO_SUCH_FILE")
             THEN Out(Raise("SandboxFileNotFoundError",
                            <<"Directory not found:", path>>, r.exc),
                      calls, r.w)
             ELSE Out(Raise("SandboxFilesystemError",
                            <<"Failed to list directory:">> \o r.text, r.exc),
                      calls, r.w)
        ELSE IF r.error # <<>>
        THEN IF check_error_message(r.error, "NO_SUCH_FILE")
             THEN Out(Raise("SandboxFileNotFoundError",
                            <<"Directory not found:", path>>, "none"),
                      calls, r.w)
             ELSE Out(Raise("SandboxFilesystemError",
                            <<"Failed to list directory:">> \o r.error, "none"),
                      calls, r.w)
        ELSE Out(Ok(r.entries), calls, r.w)

delete_file(w, path, f) ==
    LET r == ClientCall(w, "delete_file", <<path>>, f)
        calls == <<Call("delete_file", <<path>>)>>
    IN  IF r.t = "raise"
        THEN IF r.exc \in SandboxFilesystemError
             THEN Out(Raise(r.exc, r.text, "none"), calls, r.w)
             ELSE IF check_error_message(r.text, "NO_SUCH_FILE")
             THEN Out(Raise("SandboxFileNotFoundError",
                            <<"File not found:", path>>, r.exc), calls, r.w)
             ELSE Out(Raise("SandboxFilesystemError",
                            <<"Failed to delete file:">> \o r.text, r.exc),
                      calls, r.w)
        ELSE IF r.error # <<>>
        THEN IF check_error_message(r.error, "NO_SUCH_FILE")
             THEN Out(Raise("SandboxFileNotFoundError",
                            <<"File not found:", path>>, "none"), calls, r.w)
             ELSE Out(Raise("SandboxFilesystemError",
                            <<"Failed to delete file:">> \o r.error, "none"),
                      calls, r.w)
        ELSE Out(Ok("None"), calls, r.w)

delete_dir(w, path, f) ==
    LET r == ClientCall(w, "delete_dir", <<path>>, f)
        calls == <<Call("delete_dir", <<path>>)>>
    IN  IF r.t = "raise"
        THEN IF r.exc \in SandboxFilesystemError
             THEN Out(Raise(r.exc, r.text, "none"), calls, r.w)
             ELSE IF check_error_message(r.text, "NO_SUCH_FILE")
             THEN Out(Raise("SandboxFileNotFoundError",
                            <<"Directory not found:", path>>, r.exc),
                      calls, r.w)
             ELSE IF check_error_message(r.text, "DIR_NOT_EMPTY")
             THEN Out(Raise("SandboxFilesystemError",
                            <<"Directory not empty:", path>>, r.exc),
                      calls, r.w)
             ELSE Out(Raise("SandboxFilesystemError",
                            <<"Failed to delete directory:">> \o r.text, r.exc),
                      calls, r.w)
        ELSE IF r.error # <<>>
        THEN IF check_error_message(r.error, "NO_SUCH_FILE")
             THEN Out(Raise("SandboxFileNotFoundError",
                            <<"Directory not found:", path>>, "none"),
                      calls, r.w)
             ELSE IF check_error_message(r.error, "DIR_NOT_EMPTY")
             THEN Out(Raise("SandboxFilesystemError",
                            <<"Directory not empty:", path>>, "none"),
                      calls, r.w)
             ELSE Out(Raise("SandboxFilesystemError",
                            <<"Failed to delete directory:">> \o r.error,
                            "none"), calls, r.w)
        ELSE Out(Ok("None"), calls, r.w)

rename_file(w, old_path, new_path, f) ==
    LET cmd == MV \o SP \o escape_shell_arg(Chars(old_path))
                  \o SP \o escape_shell_arg(Chars(new_path))
        result == Executor(w, cmd, f)
        calls == <<Call("execute", <<cmd>>)>>
    IN  IF ~result.success
        THEN IF check_error_message(result.stderr, "NO_SUCH_FILE")
             THEN Out(Raise("SandboxFileNotFoundError",
                            <<"File not found:", old_path>>, "none"),
                      calls, result.w)
             ELSE Out(Raise("SandboxFilesystemError",
                            <<"Failed to rename file:">> \o result.stderr,
                            "none"), calls, result.w)
        ELSE Out(Ok("None"), calls, result.w)

move_file(w, source_path, destination_path, f) ==
    LET cmd == MV \o SP \o escape_shell_arg(Chars(source_path))
                  \o SP \o escape_shell_arg(Chars(destination_path))
        result == Executor(w, cmd, f)
        calls == <<Call("execute", <<cmd>>)>>
    IN  IF ~result.success
        THEN IF check_error_message(result.stderr, "NO_SUCH_FILE")
             THEN Out(Raise("SandboxFileNotFoundError",
                            <<"File not found:", source_path>>, "none"),
                      calls, result.w)
             ELSE Out(Raise("SandboxFilesystemError",
                            <<"Failed to move file:">> \o result.stderr,
                            "none"), calls, result.w)
        ELSE Out(Ok("None"), calls, result.w)

\* fs[i] is the fault of the i-th write; a list shorter than the file list
\* leaves the later writes without fault.
FaultAt(fs, i) == IF i <= Len(fs) THEN fs[i] ELSE NoFault

\* write_files that goes on with the entries behind a failed write and raises
\* at the end.
RECURSIVE write_files_from_all(_, _, _, _, _)
write_files_from_all(w, files, fs, i, calls) ==
    IF i > Len(files) THEN Out(Ok("None"), calls, w)
    ELSE LET file_info == files[i]
             o == write_file(w, file_info.path, file_info.content,
                             Get(file_info, "encoding", "utf-8"),
                             FaultAt(fs, i))
             rest == write_files_from_all(o.w, files, fs, i + 1,
                                          calls \o o.calls)
         IN  IF o.res.status = "raise" THEN Out(o.res, rest.calls, rest.w)
             ELSE rest

RECURSIVE write_files_from(_, _, _, _, _)
write_files_from(w, files, fs, i, calls) ==
    IF i > Len(files) THEN Out(Ok("None"), calls, w)
    ELSE LET file_info == files[i]
             o == write_file(w, file_info.path, file_info.content,
                             Get(file_info, "encoding", "utf-8"),
                             FaultAt(fs, i))
         IN  IF o.res.status = "raise"
             THEN Out(o.res, calls \o o.calls, o.w)
             ELSE write_files_from(o.w, files, fs, i + 1, calls \o o.calls)

write_files(w, files, fs) == write_files_from(w, files, fs, 1, <<>>)

\* exists that raises when the command fails, as rm does.
exists_raising(w, path, f) ==
    LET cmd == TEST \o SP \o FlagE \o SP \o escape_shell_arg(Chars(path))
        result == Executor(w, cmd, f)
        calls == <<Call("execute", <<cmd>>)>>
    IN  IF ~result.success /\ result.stderr # <<>>
        THEN Out(Raise("SandboxFilesystemError",
                       <<"Failed to check:">> \o result.stderr, "none"),
                 calls, result.w)
        ELSE Out(Ok(result.success), calls, result.w)

exists(w, path, f) ==
    LET cmd == TEST \o SP \o FlagE \o SP \o escape_shell_arg(Chars(path))
        result == Executor(w, cmd, f)
    IN  Out(Ok(result.success), <<Call("execute", <<cmd>>)>>, result.w)

is_file(w, path, f) ==
    LET cmd == TEST \o SP \o FlagF \o SP \o escape_shell_arg(Chars(path))
        result == Executor(w, cmd, f)
    IN  Out(Ok(result.success), <<Call("execute", <<cmd>>)>>, result.w)

is_dir(w, path, f) ==
    LET cmd == TEST \o SP \o FlagD \o SP \o escape_shell_arg(Chars(path))
        result == Executor(w, cmd, f)
    IN  Out(Ok(result.success), <<Call("execute", <<cmd>>)>>, result.w)

\* rm that puts the path into the command as it is.
rm_unescaped(w, path, recursive, f) ==
    LET cmd == IF recursive THEN RM \o SP \o FlagRF \o SP \o Chars(path)
               ELSE RM \o SP \o Chars(path)
        result == Executor(w, cmd, f)
        calls == <<Call("execute", <<cmd>>)>>
    IN  IF ~result.success
        THEN IF check_error_message(result.stderr, "NO_SUCH_FILE")
             THEN Out(Raise("SandboxFileNotFoundError",
                            <<"File not found:", path>>, "none"),
                      calls, result.w)
             ELSE Out(Raise("SandboxFilesystemError",
                            <<"Failed to remove:">> \o result.stderr, "none"),
                      calls, result.w)
        ELSE Out(Ok("None"), calls, result.w)

rm(w, path, recursive, f) ==
    LET path_escaped == escape_shell_arg(Chars(path))
        cmd == IF recursive THEN RM \o SP \o FlagRF \o SP \o path_escaped
               ELSE RM \o SP \o path_escaped
        result == Executor(w, cmd, f)
        calls == <<Call("execute", <<cmd>>)>>
    IN  IF ~result.success
        THEN IF check_error_message(result.stderr, "NO_SUCH_FILE")
             THEN Out(Raise("SandboxFileNotFoundError",
                            <<"File not found:", path>>, "none"),
                      calls, result.w)
             ELSE Out(Raise("SandboxFilesystemError",
                            <<"Failed to remove:">> \o result.stderr, "none"),
                      calls, result.w)
        ELSE Out(Ok("None"), calls, result.w)

\* run_sync_in_executor (koyeb/sandbox/utils.py): the call runs on a worker
\* thread, and the awaiting caller gets its value or its exception.
run_sync_in_executor(o) == o

_run_sync(o) == run_sync_in_executor(o)

\* A call of an async def that nobody awaits: a coroutine object is made and
\* no line of the method's body runs.
Coroutine(w) == Out(Ok("coroutine"), <<>>, w)

\* self.write_file(...) and self.read_file(...) written in a method of
\* SandboxFilesystem: on an AsyncSandboxFilesystem the name is bound to the
\* async def of the subclass.
self_write_file(self, w, path, content, encoding, f) ==
    IF self = "async" THEN Coroutine(w)
    ELSE write_file(w, path, content, encoding, f)

self_read_file(self, w, path, encoding, f) ==
    IF self = "async" THEN Coroutine(w)
    ELSE read_file(w, path, encoding, f)

SetLocal(w, local_path, b) == [w EXCEPT !.local[local_path] = Bytes(b)]

upload_file(self, w, local_path, remote_path, encoding, f) ==
    IF w.local[local_path] = NoFile
    THEN Out(Raise("SandboxFileNotFoundError",
                   <<"Local file not found:", local_path>>, "none"), <<>>, w)
    ELSE LET content_bytes == w.local[local_path].v
         IN  IF encoding = "base64"
             THEN LET o == self_write_file(self, w, remote_path,
                                           Str(B64Encode(content_bytes)),
                                           "base64", f)
                  IN  IF o.res.status = "raise" THEN o
                      ELSE Out(Ok("None"), o.calls, o.w)
             ELSE LET d == Utf8Decode(content_bytes)
                  IN  IF ~d.ok
                      THEN Out(Raise("UnicodeDecodeError",
                                     <<"Cannot decode file as", encoding>>,
                                     "UnicodeDecodeError"), <<>>, w)
                      ELSE LET o == self_write_file(self, w, remote_path,
                                                    Str(d.v), encoding, f)
                           IN  IF o.res.status = "raise" THEN o
                               ELSE Out(Ok("None"), o.calls, o.w)

download_file(self, w, remote_path, local_path, encoding, f) ==
    LET o == self_read_file(self, w, remote_path, encoding, f)
    IN  IF o.res.status = "raise" THEN o
        ELSE IF self = "async"
        THEN Out(Raise("AttributeError", <<"content">>, "none"), o.calls, o.w)
        ELSE LET file_info == o.res.value
             IN  IF encoding = "base64"
                 THEN LET d == B64Decode(file_info.content)
                      IN  IF ~d.ok
                          THEN Out(Raise(d.exc, <<>>, "none"), o.calls, o.w)
                          ELSE Out(Ok("None"), o.calls,
                                   SetLocal(o.w, local_path, d.v))
                 ELSE Out(Ok("None"), o.calls,
                          SetLocal(o.w, local_path,
                                   Utf8Encode(file_info.content)))

ls(w, path, f) == list_dir(w, path, f)

----------------------------------------------------------------------------
(* AsyncSandboxFilesystem. *)

Async_write_file(w, path, content, encoding, f) ==
    _run_sync(write_file(w, path, content, encoding, f))

Async_read_file(w, path, encoding, f) ==
    _run_sync(read_file(w, path, encoding, f))

Async_mkdir(w, path, recursive, f) == _run_sync(mkdir(w, path, recursive, f))

Async_list_dir(w, path, f) == _run_sync(list_dir(w, path, f))

Async_delete_file(w, path, f) == _run_sync(delete_file(w, path, f))

Async_delete_dir(w, path, f) == _run_sync(delete_dir(w, path, f))

Async_rename_file(w, old_path, new_path, f) ==
    _run_sync(rename_file(w, old_path, new_path, f))

Async_move_file(w, source_path, destination_path, f) ==
    _run_sync(move_file(w, source_path, destination_path, f))

RECURSIVE Async_write_files_from(_, _, _, _, _)
Async_write_files_from(w, files, fs, i, calls) ==
    IF i > Len(files) THEN Out(Ok("None"), calls, w)
    ELSE LET file_info == files[i]
             o == Async_write_file(w, file_info.path, file_info.content,
                                   Get(file_info, "encoding", "utf-8"),
                                   FaultAt(fs, i))
         IN  IF o.res.status = "raise"
             THEN Out(o.res, calls \o o.calls, o.w)
             ELSE Async_write_files_from(o.w, files, fs, i + 1,
                                         calls \o o.calls)

Async_write_files(w, files, fs) ==
    Async_write_files_from(w, files, fs, 1, <<>>)

Async_exists(w, path, f) == _run_sync(exists(w, path, f))

Async_is_file(w, path, f) == _run_sync(is_file(w, path, f))

Async_is_dir(w, path, f) == _run_sync(is_dir(w, path, f))

Async_upload_file(w, local_path, remote_path, encoding, f) ==
    _run_sync(upload_file("async", w, local_path, remote_path, encoding, f))

Async_download_file(w, remote_path, local_path, encoding, f) ==
    _run_sync(download_file("async", w, remote_path, local_path, encoding, f))

Async_ls(w, path, f) == Async_list_dir(w, path, f)

Async_rm(w, path, recursive, f) == _run_sync(rm(w, path, recursive, f))

----------------------------------------------------------------------------
(* SandboxFileIO and AsyncSandboxFileIO.  A handle h is its fields: the    *)
(* path, the mode (a string, as a sequence of characters) and _closed.     *)

In(c, mode) == \E i \in 1..Len(mode) : mode[i] = c

FileIO(kind, path, mode) ==
    [kind |-> kind, path |-> path, mode |-> mode, closed |-> FALSE]

open(path, mode) == FileIO("sync", path, mode)

Async_open(path, mode) == FileIO("async", path, mode)

\* read() without the test of _closed.
SandboxFileIO_read_unchecked(h, w, f) ==
    IF ~In("r", h.mode)
    THEN Out(Raise("ValueError", <<"File not opened for reading">>, "none"),
             <<>>, w)
    ELSE LET o == read_file(w, h.path, "utf-8", f)
         IN  IF o.res.status = "raise" THEN o
             ELSE Out(Ok(o.res.value.content), o.calls, o.w)

SandboxFileIO_read(h, w, f) ==
    IF ~In("r", h.mode)
    THEN Out(Raise("ValueError", <<"File not opened for reading">>, "none"),
             <<>>, w)
    ELSE IF h.closed
    THEN Out(Raise("ValueError", <<"File is closed">>, "none"), <<>>, w)
    ELSE LET o == read_file(w, h.path, "utf-8", f)
         IN  IF o.res.status = "raise" THEN o
             ELSE Out(Ok(o.res.value.content), o.calls, o.w)

\* write() that lets the NotFound of the read before an append escape.
SandboxFileIO_write_unswallowed(h, w, content, f1, f2) ==
    IF ~In("w", h.mode) /\ ~In("a", h.mode)
    THEN Out(Raise("ValueError", <<"File not opened for writing">>, "none"),
             <<>>, w)
    ELSE IF h.closed
    THEN Out(Raise("ValueError", <<"File is closed">>, "none"), <<>>, w)
    ELSE IF In("a", h.mode)
    THEN LET existing == read_file(w, h.path, "utf-8", f1)
         IN  IF existing.res.status = "raise" THEN existing
             ELSE LET o == write_file(existing.w, h.path,
                                      Str(existing.res.value.content
                                          \o content), "utf-8", f2)
                  IN  Out(o.res, existing.calls \o o.calls, o.w)
    ELSE write_file(w, h.path, Str(content), "utf-8", f1)

SandboxFileIO_write(h, w, content, f1, f2) ==
    IF ~In("w", h.mode) /\ ~In("a", h.mode)
    THEN Out(Raise("ValueError", <<"File not opened for writing">>, "none"),
             <<>>, w)
    ELSE IF h.closed
    THEN Out(Raise("ValueError", <<"File is closed">>, "none"), <<>>, w)
    ELSE IF In("a", h.mode)
    THEN LET existing == read_file(w, h.path, "utf-8", f1)
         IN  IF /\ existing.res.status = "raise"
                /\ existing.res.exc # "SandboxFileNotFoundError"
             THEN existing
             ELSE LET c == IF existing.res.status = "ok"
                           THEN existing.res.value.content \o content
                           ELSE content
                      o == write_file(existing.w, h.path, Str(c), "utf-8", f2)
                  IN  Out(o.res, existing.calls \o o.calls, o.w)
    ELSE write_file(w, h.path, Str(content), "utf-8", f1)

SandboxFileIO_close(h) == [h EXCEPT !.closed = TRUE]

AsyncSandboxFileIO_read(h, w, f) ==
    IF ~In("r", h.mode)
    THEN Out(Raise("ValueError", <<"File not opened for reading">>, "none"),
             <<>>, w)
    ELSE IF h.closed
    THEN Out(Raise("ValueError", <<"File is closed">>, "none"), <<>>, w)
    ELSE LET o == Async_read_file(w, h.path, "utf-8", f)
         IN  IF o.res.status = "raise" THEN o
             ELSE Out(Ok(o.res.value.content), o.calls, o.w)

\* write() without the test of the mode.
AsyncSandboxFileIO_write_any_mode(h, w, content, f1, f2) ==
    IF h.closed
    THEN Out(Raise("ValueError", <<"File is closed">>, "none"), <<>>, w)
    ELSE Async_write_file(w, h.path, Str(content), "utf-8", f1)

AsyncSandboxFileIO_write(h, w, content, f1, f2) ==
    IF ~In("w", h.mode) /\ ~In("a", h.mode)
    THEN Out(Raise("ValueError", <<"File not opened for writing">>, "none"),
             <<>>, w)
    ELSE IF h.closed
    THEN Out(Raise("ValueError", <<"File is closed">>, "none"), <<>>, w)
    ELSE IF In("a", h.mode)
    THEN LET existing == Async_read_file(w, h.path, "utf-8", f1)
         IN  IF /\ existing.res.status = "raise"
                /\ existing.res.exc # "SandboxFileNotFoundError"
             THEN existing
             ELSE LET c == IF existing.res.status = "ok"
                           THEN existing.res.value.content \o content
                           ELSE content
                      o == Async_write_file(existing.w, h.path, Str(c),
                                            "utf-8", f2)
                  IN  Out(o.res, existing.calls \o o.calls, o.w)
    ELSE Async_write_file(w, h.path, Str(content), "utf-8", f1)

AsyncSandboxFileIO_close(h) == [h EXCEPT !.closed = TRUE]

\* AsyncSandboxFileIO.write in its steps, between which other tasks run:
\* the tests of the handle, then in append mode the awaited read_file, whose
\* NotFound is swallowed, then the awaited write_file.
AsyncSandboxFileIO_write_test(h, w) ==
    IF ~In("w", h.mode) /\ ~In("a", h.mode)
    THEN Out(Raise("ValueError", <<"File not opened for writing">>, "none"),
             <<>>, w)
    ELSE IF h.closed
    THEN Out(Raise("ValueError", <<"File is closed">>, "none"), <<>>, w)
    ELSE Out(Ok("None"), <<>>, w)

AsyncSandboxFileIO_write_read(h, w, f) ==
    LET existing == Async_read_file(w, h.path, "utf-8", f)
    IN  IF existing.res.status = "ok"
        THEN Out(Ok(existing.res.value.content), existing.calls, existing.w)
        ELSE IF existing.res.exc = "SandboxFileNotFoundError"
        THEN Out(Ok(<<>>), existing.calls, existing.w)
        ELSE existing

\* The last step, made atomic with a read of its own: the content sent is
\* what the path holds at that moment, followed by content.
AsyncSandboxFileIO_write_send_fresh(h, w, existing, content, f) ==
    Async_write_file(w, h.path,
                     Str((IF In("a", h.mode) /\ NodeOf(w, h.path) = "file"
                          THEN w.data[h.path] ELSE <<>>) \o content),
                     "utf-8", f)

AsyncSandboxFileIO_write_send(h, w, existing, content, f) ==
    Async_write_file(w, h.path, Str(existing \o content), "utf-8", f)

\* __enter__ and __exit__: the handle the block gets, and the handle __exit__
\* leaves with the value it returns.
SandboxFileIO_enter(h) == h

\* __exit__ that does not call close().
SandboxFileIO_exit_unclosed(h) == [h |-> h, value |-> "None"]

SandboxFileIO_exit(h) == [h |-> SandboxFileIO_close(h), value |-> "None"]

AsyncSandboxFileIO_aenter(h) == h

AsyncSandboxFileIO_aexit(h) ==
    [h |-> AsyncSandboxFileIO_close(h), value |-> "None"]

\* The body of a managed block: nothing, one read() or one write(content).
Bodies == {"pass", "read", "write"}

Body(h, w, b, content, f) ==
    IF b = "pass" THEN Out(Ok("None"), <<>>, w)
    ELSE IF h.kind = "sync"
    THEN IF b = "read" THEN SandboxFileIO_read(h, w, f)
         ELSE SandboxFileIO_write(h, w, content, f, NoFault)
    ELSE IF b = "read" THEN AsyncSandboxFileIO_read(h, w, f)
         ELSE AsyncSandboxFileIO_write(h, w, content, f, NoFault)

\* with fs.open(path, mode) as f: body (async with on the async facade).  The
\* exception of the body is raised again unless __exit__ returns a true value.
With_leave(o, x) ==
    [h |-> x.h,
     out |-> IF o.res.status = "raise" /\ x.value # "True" THEN o
             ELSE Out(Ok("None"), o.calls, o.w)]

With_enter(h) ==
    IF h.kind = "sync" THEN SandboxFileIO_enter(h)
    ELSE AsyncSandboxFileIO_aenter(h)

With_exit(h) ==
    IF h.kind = "sync" THEN SandboxFileIO_exit(h)
    ELSE AsyncSandboxFileIO_aexit(h)

With_open(h, w, b, content, f) ==
    With_leave(Body(With_enter(h), w, b, content, f), With_exit(With_enter(h)))

----------------------------------------------------------------------------
(* The inputs of the calls. *)

Kinds == {"sync", "async"}
Encodings == {"utf-8", "base64"}

\* "a" as a str, "e-acute" as its two UTF-8 bytes, and a byte that is no UTF-8.
Contents == {Str(<<97>>), Bytes(<<195, 169>>), Bytes(<<255>>)}

\* What a handle writes: "a" and "b".
HandleContents == {<<97>>, <<98>>}
HandlePaths == {"/d"}
Modes == {<<"r">>, <<"w">>, <<"a">>, <<"r", "a">>}

Faults ==
    {NoFault,
     ErrFault(TxtDenied), ErrFault(TxtNoFile), ErrFault(TxtExists),
     ErrFault(TxtNotEmpty), ErrFault(TxtGone),
     RaiseFault("ConnectionError", TxtDenied),
     RaiseFault("ConnectionError", TxtNoFile),
     RaiseFault("ConnectionError", TxtExists),
     RaiseFault("SandboxFileNotFoundError", TxtDenied),
     RaiseFault("SandboxFilesystemError", TxtDenied)}

WriteFaults ==
    {NoFault, ErrFault(TxtDenied),
     RaiseFault("ConnectionError", TxtDenied),
     RaiseFault("SandboxFileExistsError", TxtDenied)}

ReadFaults ==
    Faults \ {ErrFault(TxtNotEmpty), ErrFault(TxtGone),
              RaiseFault("ConnectionError", TxtExists)}

MkdirFaults ==
    Faults \ {ErrFault(TxtNotEmpty), ErrFault(TxtGone),
              RaiseFault("ConnectionError", TxtNoFile)}

FewFaults ==
    {NoFault, ErrFault(TxtNoFile), RaiseFault("ConnectionError", TxtDenied)}

HandleFaults ==
    {NoFault, ErrFault(TxtDenied), ErrFault(TxtNoFile),
     RaiseFault("ConnectionError", TxtDenied)}

ExecFaults == {NoFault, RaiseFault("ConnectionError", TxtTransport)}

FileEntries ==
    {[path |-> "/d", content |-> Str(<<97>>)],
     [path |-> "/d", content |-> Bytes(<<255>>), encoding |-> "base64"]}

FileLists == UNION {[1..n -> FileEntries] : n \in 0..MaxFiles}

\* The callers that write at the same time, what each writes, and how: by
\* write_file, or by write() on a handle it opened in mode "w" or "a".
Callers == 1..MaxCallers
Payload(t) == <<97 + t>>
Hows == {"write_file", "w", "a"}
RacePath == "/d"
Idle == [how |-> "none", pc |-> "idle", existing |-> <<>>, sent |-> <<>>,
         status |-> "none"]

\* Entries of two paths, of which the second needs the first to be a
\* directory.
BatchEntries ==
    {[path |-> "/d", content |-> Str(<<97>>)],
     [path |-> "/d/f", content |-> Str(<<98>>), encoding |-> "utf-8"]}

BatchLists == UNION {[1..n -> BatchEntries] : n \in 0..MaxBatch}

----------------------------------------------------------------------------
(* The state machine. *)

Init ==
    /\ world = [node |-> [p \in RemotePaths |-> "none"],
                data |-> [p \in RemotePaths |-> <<>>],
                local |-> [l \in LocalPaths |->
                             IF l = "in.txt" THEN Bytes(<<195, 169>>)
                             ELSE IF l = "bin.dat" THEN Bytes(<<255>>)
                             ELSE NoFile]]
    /\ handles = <<>>
    /\ last = [op |-> "none", kind |-> "sync", on |-> "none", h |-> 0,
               path |-> "", args |-> <<"none">>, f |-> <<>>,
               res |-> Ok("None"), calls |-> <<>>]
    /\ twin = [res |-> Ok("None"), calls |-> <<>>]
    /\ callers = [task |-> [t \in Callers |-> Idle], processed |-> <<>>]

\* A call of operation op on the facade of the given kind: s and a are what
\* SandboxFilesystem and AsyncSandboxFilesystem make of it.  The arguments are
\* recorded behind the name of the operation they belong to.
Invoke(op, kind, path, args, fs, s, a) ==
    LET mine == IF kind = "sync" THEN s ELSE a
        other == IF kind = "sync" THEN a ELSE s
    IN  /\ world' = mine.w
        /\ last' = [op |-> op, kind |-> kind, on |-> "fs", h |-> 0,
                    path |-> path, args |-> <<op>> \o args, f |-> fs,
                    res |-> mine.res, calls |-> mine.calls]
        /\ twin' = [res |-> other.res, calls |-> other.calls]
        /\ UNCHANGED <<handles, callers>>

\* One action per operation; K, P, C and F are the kinds of facade, the paths,
\* the contents and the faults the call's inputs are drawn from.
WriteFile(K, P, C, F) ==
    \E k \in K, p \in P, c \in C, e \in Encodings, f \in F :
        Invoke("write_file", k, p, <<c, e>>, <<f>>,
               write_file(world, p, c, e, f),
               Async_write_file(world, p, c, e, f))

ReadFile(K, P, F) ==
    \E k \in K, p \in P, e \in Encodings, f \in F :
        Invoke("read_file", k, p, <<e>>, <<f>>,
               read_file(world, p, e, f), Async_read_file(world, p, e, f))

Mkdir(K, P, F) ==
    \E k \in K, p \in P, r \in BOOLEAN, f \in F :
        Invoke("mkdir", k, p, <<r>>, <<f>>,
               mkdir(world, p, r, f), Async_mkdir(world, p, r, f))

ListDir(K, P, F) ==
    \E k \in K, p \in P, f \in F :
        Invoke("list_dir", k, p, <<>>, <<f>>,
               list_dir(world, p, f), Async_list_dir(world, p, f))

DeleteFile(K, P, F) ==
    \E k \in K, p \in P, f \in F :
        Invoke("delete_file", k, p, <<>>, <<f>>,
               delete_file(world, p, f), Async_delete_file(world, p, f))

DeleteDir(K, P, F) ==
    \E k \in K, p \in P, f \in F :
        Invoke("delete_dir", k, p, <<>>, <<f>>,
               delete_dir(world, p, f), Async_delete_dir(world, p, f))

RenameFile(K, P, Q) ==
    \E k \in K, p \in P, q \in Q, f \in ExecFaults :
        Invoke("rename_file", k, p, <<q>>, <<f>>,
               rename_file(world, p, q, f), Async_rename_file(world, p, q, f))

MoveFile(K, P, Q) ==
    \E k \in K, p \in P, q \in Q, f \in ExecFaults :
        Invoke("move_file", k, p, <<q>>, <<f>>,
               move_file(world, p, q, f), Async_move_file(world, p, q, f))

WriteFiles(K, L, N, F) ==
    \E k \in K, files \in L, i \in 1..N, f \in F :
        LET fs == [j \in 1..i |-> IF j = i THEN f ELSE NoFault]
        IN  Invoke("write_files", k, "", <<files>>, fs,
                   write_files(world, files, fs),
                   Async_write_files(world, files, fs))

Exists(K, P) ==
    \E k \in K, p \in P, f \in ExecFaults :
        Invoke("exists", k, p, <<>>, <<f>>,
               exists(world, p, f), Async_exists(world, p, f))

IsFile(K, P) ==
    \E k \in K, p \in P, f \in ExecFaults :
        Invoke("is_file", k, p, <<>>, <<f>>,
               is_file(world, p, f), Async_is_file(world, p, f))

IsDir(K, P) ==
    \E k \in K, p \in P, f \in ExecFaults :
        Invoke("is_dir", k, p, <<>>, <<f>>,
               is_dir(world, p, f), Async_is_dir(world, p, f))

UploadFile(K, P, F) ==
    \E k \in K, l \in UploadPaths, p \in P, e \in Encodings, f \in F :
        Invoke("upload_file", k, p, <<l, e>>, <<f>>,
               upload_file("sync", world, l, p, e, f),
               Async_upload_file(world, l, p, e, f))

DownloadFile(K, P, F) ==
    \E k \in K, p \in P, e \in Encodings, f \in F :
        Invoke("download_file", k, p, <<"out", e>>, <<f>>,
               download_file("sync", world, p, "out", e, f),
               Async_download_file(world, p, "out", e, f))

Ls(K, P, F) ==
    \E k \in K, p \in P, f \in F :
        Invoke("ls", k, p, <<>>, <<f>>, ls(world, p, f), Async_ls(world, p, f))

Rm(K, P) ==
    \E k \in K, p \in P, r \in BOOLEAN, f \in ExecFaults :
        Invoke("rm", k, p, <<r>>, <<f>>,
               rm(world, p, r, f), Async_rm(world, p, r, f))

\* The operations on the HTTP client and on the shell, with every path and
\* every fault.  The caller holds a SandboxFilesystem; twin is what an
\* AsyncSandboxFilesystem makes of the same call.
Next ==
    \/ WriteFile({"sync"}, PathArgs, Contents, WriteFaults)
    \/ ReadFile({"sync"}, PathArgs, ReadFaults)
    \/ Mkdir({"sync"}, PathArgs, MkdirFaults)
    \/ ListDir({"sync"}, PathArgs, ReadFaults)
    \/ DeleteFile({"sync"}, PathArgs, ReadFaults)
    \/ DeleteDir({"sync"}, PathArgs, Faults)
    \/ RenameFile({"sync"}, PathArgs, RemotePaths)
    \/ MoveFile({"sync"}, PathArgs, RemotePaths)
    \/ Exists({"sync"}, PathArgs)
    \/ IsFile({"sync"}, PathArgs)
    \/ IsDir({"sync"}, PathArgs)
    \/ Rm({"sync"}, PathArgs)

Spec == Init /\ [][Next]_vars

\* Every operation of the facade, on a facade of either kind.
NextPair ==
    \/ WriteFile(Kinds, {"/d"}, Contents, FewFaults)
    \/ ReadFile(Kinds, {"/d"}, FewFaults)
    \/ Mkdir(Kinds, RemotePaths, FewFaults)
    \/ ListDir(Kinds, {"/d"}, FewFaults)
    \/ DeleteFile(Kinds, RemotePaths, FewFaults)
    \/ DeleteDir(Kinds, {"/d"}, FewFaults)
    \/ RenameFile(Kinds, RemotePaths, RemotePaths)
    \/ MoveFile(Kinds, RemotePaths, RemotePaths)
    \/ WriteFiles(Kinds, FileLists, MaxFiles, FewFaults)
    \/ Exists(Kinds, RemotePaths)
    \/ IsFile(Kinds, RemotePaths)
    \/ IsDir(Kinds, RemotePaths)
    \/ UploadFile(Kinds, {"/d"}, FewFaults)
    \/ DownloadFile(Kinds, {"/d"}, FewFaults)
    \/ Ls(Kinds, {"/d"}, FewFaults)
    \/ Rm(Kinds, RemotePaths)

SpecPair == Init /\ [][NextPair]_vars

\* The operations that run a shell command, on paths that hold shell syntax
\* too, with the two client operations that fill the sandbox.
NextShell ==
    \/ WriteFile({"sync"}, RemotePaths, {Str(<<97>>)}, {NoFault})
    \/ Mkdir({"sync"}, RemotePaths, {NoFault})
    \/ RenameFile({"sync"}, RemotePaths, ShellPaths)
    \/ MoveFile({"sync"}, ShellPaths, RemotePaths)
    \/ Exists({"sync"}, ShellPaths)
    \/ IsFile({"sync"}, ShellPaths)
    \/ IsDir({"sync"}, ShellPaths)
    \/ Rm({"sync"}, ShellPaths)

SpecShell == Init /\ [][NextShell]_vars

\* write_files on a facade of either kind, with the two client operations
\* that make "/d" a directory and empty the sandbox again.
NextFiles ==
    \/ Mkdir({"sync"}, {"/d"}, {NoFault})
    \/ DeleteFile({"sync"}, RemotePaths, {NoFault})
    \/ WriteFiles(Kinds, BatchLists, MaxBatch,
                  {NoFault, RaiseFault("ConnectionError", TxtDenied)})

SpecFiles == Init /\ [][NextFiles]_vars

----------------------------------------------------------------------------
(* Callers that write to one path at the same time.  Every awaited call of *)
(* the facade is one step; the sandbox serves one request at a time.       *)

HandleOf(t) == Async_open(RacePath, <<callers.task[t].how>>)

Step(t, task, o) ==
    /\ world' = o.w
    /\ callers' = [task |-> [callers.task EXCEPT ![t] = task],
                   processed |-> callers.processed \o o.calls]
    /\ UNCHANGED <<handles, last, twin>>

\* One write_file before any caller starts: the content the race finds.
Seed ==
    /\ \A t \in Callers : callers.task[t].pc = "idle"
    /\ WriteFile({"sync"}, {RacePath}, {Str(<<101>>)}, {NoFault})

\* Caller t calls write_file, or write() on its handle, which tests the
\* handle before its first await.
Begin ==
    \E t \in Callers, how \in Hows :
        /\ callers.task[t].pc = "idle"
        /\ LET h == Async_open(RacePath, <<how>>)
               o == IF how = "write_file" THEN Out(Ok("None"), <<>>, world)
                    ELSE AsyncSandboxFileIO_write_test(h, world)
           IN  Step(t, [Idle EXCEPT !.how = how,
                                    !.pc = IF o.res.status = "raise"
                                           THEN "done"
                                           ELSE IF how = "a" THEN "reading"
                                           ELSE "sending",
                                    !.status = o.res.status], o)

\* The read of an appending write() is served.
PreRead ==
    \E t \in Callers :
        /\ callers.task[t].pc = "reading"
        /\ LET o == AsyncSandboxFileIO_write_read(HandleOf(t), world, NoFault)
           IN  Step(t, IF o.res.status = "raise"
                       THEN [callers.task[t] EXCEPT !.pc = "done",
                                                    !.status = "raise"]
                       ELSE [callers.task[t] EXCEPT !.pc = "sending",
                                                    !.existing = o.res.value],
                    o)

\* The write of caller t is served.
Send ==
    \E t \in Callers :
        /\ callers.task[t].pc = "sending"
        /\ LET task == callers.task[t]
               o == IF task.how = "write_file"
                    THEN Async_write_file(world, RacePath, Str(Payload(t)),
                                          "utf-8", NoFault)
                    ELSE AsyncSandboxFileIO_write_send(
                             HandleOf(t), world, task.existing, Payload(t),
                             NoFault)
           IN  Step(t, [task EXCEPT !.pc = "done",
                                    !.status = o.res.status,
                                    !.sent = o.calls[1].args[2]], o)

NextRace == Seed \/ Begin \/ PreRead \/ Send

SpecRace == Init /\ [][NextRace]_vars

----------------------------------------------------------------------------
(* File handles. *)

\* An operation op on handle h, number i: s and a are what a SandboxFileIO
\* and an AsyncSandboxFileIO with these fields make of it.
OnHandle(op, i, h, args, fs, s, a) ==
    LET mine == IF h.kind = "sync" THEN s ELSE a
        other == IF h.kind = "sync" THEN a ELSE s
    IN  /\ world' = mine.w
        /\ last' = [op |-> op, kind |-> h.kind, on |-> "handle", h |-> i,
                    path |-> h.path, args |-> <<op>> \o args, f |-> fs,
                    res |-> mine.res, calls |-> mine.calls]
        /\ twin' = [res |-> other.res, calls |-> other.calls]
        /\ UNCHANGED callers

Open(K) ==
    \E k \in K, p \in HandlePaths, m \in Modes :
        /\ Len(handles) < MaxHandles
        /\ LET h == IF k = "sync" THEN open(p, m) ELSE Async_open(p, m)
           IN  /\ handles' = Append(handles, h)
               /\ OnHandle("open", Len(handles) + 1, h, <<m>>, <<>>,
                           Out(Ok("handle"), <<>>, world),
                           Out(Ok("handle"), <<>>, world))

Read ==
    \E i \in DOMAIN handles, f \in HandleFaults :
        /\ OnHandle("read", i, handles[i], <<>>, <<f>>,
                    SandboxFileIO_read(handles[i], world, f),
                    AsyncSandboxFileIO_read(handles[i], world, f))
        /\ UNCHANGED handles

\* The guard keeps the content an append builds within MaxLen.
Write ==
    \E i \in DOMAIN handles, c \in HandleContents,
       f1 \in HandleFaults, f2 \in HandleFaults :
        /\ In("a", handles[i].mode) \/ f2 = NoFault
        /\ NodeOf(world, handles[i].path) = "file"
              => Len(world.data[handles[i].path]) + Len(c) <= MaxLen
        /\ OnHandle("write", i, handles[i], <<c>>, <<f1, f2>>,
                    SandboxFileIO_write(handles[i], world, c, f1, f2),
                    AsyncSandboxFileIO_write(handles[i], world, c, f1, f2))
        /\ UNCHANGED handles

Close ==
    \E i \in DOMAIN handles :
        /\ handles' = [handles EXCEPT
                         ![i] = IF @.kind = "sync" THEN SandboxFileIO_close(@)
                                ELSE AsyncSandboxFileIO_close(@)]
        /\ OnHandle("close", i, handles[i], <<>>, <<>>,
                    Out(Ok("None"), <<>>, world), Out(Ok("None"), <<>>, world))

\* The block around handle h has run and x is what it left: the handle and
\* the outcome.  No call is made on a handle of the other kind.
Left(h, args, f, x) ==
    /\ handles' = Append(handles, x.h)
    /\ OnHandle("with", Len(handles) + 1, h, args, <<f>>, x.out, x.out)

\* A managed block around one handle, on a facade of either kind.
With(K) ==
    \E k \in K, p \in HandlePaths, m \in Modes, b \in Bodies,
       c \in HandleContents, f \in HandleFaults :
        /\ Len(handles) < MaxHandles
        /\ b # "write" => c = <<97>>
        /\ (b = "write" /\ NodeOf(world, p) = "file")
              => Len(world.data[p]) + Len(c) <= MaxLen
        /\ Left(FileIO(k, p, m), <<m, b, c>>, f,
                With_open(FileIO(k, p, m), world, b, c, f))

NextHandle == Open({"sync"}) \/ Read \/ Write \/ Close \/ With(Kinds)

SpecHandle == Init /\ [][NextHandle]_vars

----------------------------------------------------------------------------
(* Claims. *)

Six == {"write_file", "read_file", "mkdir", "list_dir", "delete_file",
        "delete_dir"}

SameOutcome(x, y) ==
    /\ x.calls = y.calls
    /\ x.res.status = y.res.status
    /\ x.res.exc = y.res.exc
    /\ x.res.status = "ok" => x.res.value = y.res.value

\* C1: every operation of AsyncSandboxFilesystem issues the same collaborator
\* calls and ends with the same value or the same kind of error as the
\* operation of SandboxFilesystem does on the same inputs and the same
\* collaborator responses.
C1_AsyncMatchesSync == last.on = "fs" => SameOutcome(last, twin)

\* Apart from upload_file and download_file the two facades do agree.
C1_OthersMatch ==
    last.on = "fs" /\ last.op \notin {"upload_file", "download_file"}
        => SameOutcome(last, twin)

UsageError(x) ==
    /\ x.res.status = "raise"
    /\ x.res.exc = "ValueError"
    /\ x.calls = <<>>

OnOpenHandle(op) ==
    /\ last.on = "handle"
    /\ last.op = op
    /\ ~handles[last.h].closed

\* C2: once close() has been called on a handle, of either class and of any
\* mode, every later read() or write() on it raises ValueError and issues no
\* remote call.
C2_ClosedHandleRaises ==
    /\ last.on = "handle"
    /\ last.op \in {"read", "write"}
    /\ handles[last.h].closed
    => UsageError(last) /\ UsageError(twin)

C2_Witness ==
    /\ last.on = "handle"
    /\ last.op = "write"
    /\ handles[last.h].closed
    /\ In("a", handles[last.h].mode)
    /\ UsageError(last)

\* C3: on an open handle a read() is accepted only in a mode that holds "r"
\* and a write() only in a mode that holds "w" or "a"; the refused call raises
\* ValueError, issues no remote call and leaves the handles as they were.
C3_ModeIsChecked ==
    [][/\ (/\ last'.on = "handle"
           /\ last'.op = "read"
           /\ ~In("r", handles[last'.h].mode))
          => UsageError(last') /\ UsageError(twin') /\ handles' = handles
       /\ (/\ last'.on = "handle"
           /\ last'.op = "write"
           /\ ~In("w", handles[last'.h].mode)
           /\ ~In("a", handles[last'.h].mode))
          => UsageError(last') /\ UsageError(twin') /\ handles' = handles
       /\ (/\ last'.on = "handle"
           /\ last'.op \in {"read", "write"}
           /\ last'.res.exc # "ValueError")
          => /\ handles' = handles
             /\ ~handles[last'.h].closed
             /\ last'.op = "read" => In("r", handles[last'.h].mode)
             /\ last'.op = "write" => \/ In("w", handles[last'.h].mode)
                                      \/ In("a", handles[last'.h].mode)]_vars

C3_Witness ==
    /\ OnOpenHandle("write")
    /\ handles[last.h].mode = <<"r">>
    /\ UsageError(last)

ReadOf(p) == Call("read_file", <<p>>)
WriteOf(p, text) == Call("write_file", <<p, text>>)

NotFoundFaults == {ErrFault(TxtNoFile)}
OtherFaults == {ErrFault(TxtDenied), RaiseFault("ConnectionError", TxtDenied)}

\* What C4 says of one appending write of c to path p, x being its outcome:
\* the remote read comes first; existing content e is followed by one
\* overwrite with e then c; a missing path is followed by one overwrite with
\* exactly c, which ends without error when the overwrite has no fault; any
\* other failure of the read is raised and nothing is written.
AppendDoes(x, p, c, f1, f2) ==
    /\ x.calls # <<>> /\ x.calls[1] = ReadOf(p)
    /\ f1 = NoFault /\ NodeOf(world, p) = "file"
         => x.calls = <<ReadOf(p), WriteOf(p, world.data[p] \o c)>>
    /\ (f1 \in NotFoundFaults \/ (f1 = NoFault /\ NodeOf(world, p) = "none"))
         => /\ x.calls = <<ReadOf(p), WriteOf(p, c)>>
            /\ f2 = NoFault => x.res.status = "ok"
            /\ x.res.exc # "SandboxFileNotFoundError"
    /\ f1 \in OtherFaults
         => /\ x.res.status = "raise"
            /\ x.res.exc = "SandboxFilesystemError"
            /\ x.calls = <<ReadOf(p)>>

\* C4: write(c) on an open append-mode handle reads the path and then issues
\* one overwrite with the existing content followed by c; a NotFound of the
\* read is swallowed and the overwrite carries exactly c; any other failure
\* of the read is propagated and no overwrite is issued.
C4_AppendReadsThenOverwrites ==
    [][(/\ last'.on = "handle"
        /\ last'.op = "write"
        /\ In("a", handles[last'.h].mode)
        /\ ~handles[last'.h].closed)
       => /\ AppendDoes(last', last'.path, last'.args[2],
                        last'.f[1], last'.f[2])
          /\ AppendDoes(twin', last'.path, last'.args[2],
                        last'.f[1], last'.f[2])
          /\ last'.f[1] \in OtherFaults => world' = world]_vars

C4_Witness ==
    /\ OnOpenHandle("write")
    /\ In("a", handles[last.h].mode)
    /\ last.f = <<ErrFault(TxtNoFile), NoFault>>
    /\ last.calls = <<ReadOf(last.path), WriteOf(last.path, last.args[2])>>
    /\ last.res.status = "ok"

Probes == {"exists", "is_file", "is_dir"}

\* What test -e, test -f and test -d answer for path p.
Answer(op, p) ==
    IF op = "exists" THEN NodeOf(world, p) # "none"
    ELSE IF op = "is_file" THEN NodeOf(world, p) = "file"
    ELSE NodeOf(world, p) = "dir"

Probed(x) ==
    /\ x.res.status = "ok"
    /\ x.res.value \in BOOLEAN
    /\ x.res.value = (last.f = <<NoFault>> /\ Answer(last.op, last.path))

Kinds3 ==
    {"SandboxFileNotFoundError", "SandboxFileExistsError",
     "SandboxFilesystemError"}

\* C6: delete_dir(p) on a directory that has children raises the NotEmpty
\* failure, a kind that is none of NotFound, AlreadyExists and the generic
\* filesystem failure.
C6_NotEmptyIsItsOwnKind ==
    /\ last.on = "fs"
    /\ last.op = "delete_dir"
    /\ last.f = <<NoFault>>
    /\ NodeOf(world, last.path) = "dir"
    /\ Children(world, last.path) # {}
    => last.res.status = "raise" /\ last.res.exc \notin Kinds3

\* C7: every facade operation called with an empty or whitespace-only path
\* raises ValueError and calls neither the HTTP client nor the executor.
C7_BlankPathIsRefused ==
    last.on = "fs" /\ last.path \in BlankPaths => UsageError(last)

\* C8: write, read, mkdir, list, delete_file and delete_dir let no raw
\* exception escape: what they raise is a SandboxFilesystemError; a typed
\* failure raised inside the call keeps its kind and is not wrapped; any other
\* exception is wrapped and kept as the cause.
C8_NoRawExceptionEscapes ==
    last.on = "fs" /\ last.op \in Six
    => /\ last.res.status = "raise" => last.res.exc \in SandboxFilesystemError
       /\ (last.calls # <<>> /\ last.f[1].t = "raise")
          => IF last.f[1].exc \in SandboxFilesystemError
             THEN last.res.exc = last.f[1].exc /\ last.res.cause = "none"
             ELSE /\ last.res.exc \in SandboxFilesystemError
                  /\ last.res.cause = last.f[1].exc

\* The error texts that hold each marker.
Marked(type) ==
    IF type = "NO_SUCH_FILE" THEN {TxtNoFile, TxtGone}
    ELSE IF type = "FILE_EXISTS" THEN {TxtExists}
    ELSE {TxtNotEmpty, TxtGone}

Expected(op, text) ==
    IF /\ op \in {"read_file", "list_dir", "delete_file", "delete_dir"}
       /\ text \in Marked("NO_SUCH_FILE")
    THEN "SandboxFileNotFoundError"
    ELSE IF op = "mkdir" /\ text \in Marked("FILE_EXISTS")
    THEN "SandboxFileExistsError"
    ELSE "SandboxFilesystemError"

\* An error text whose only marker is the one of a directory that is not
\* empty, reported to delete_dir: the case of C6.
NotEmptyCase(op, text) ==
    /\ op = "delete_dir"
    /\ text \in Marked("DIR_NOT_EMPTY") \ Marked("NO_SUCH_FILE")

Classified(x) ==
    /\ x.res.status = "raise"
    /\ x.res.exc = Expected(last.op, last.f[1].text)

\* C9: on an error reported by the collaborator, read, list, delete_file and
\* delete_dir raise NotFound when the text holds the no-such-file marker,
\* mkdir raises AlreadyExists when it holds the file-exists marker, and the
\* generic failure is raised otherwise; read(p) of a path that does not exist
\* raises NotFound, and a mkdir(p) right after a successful mkdir(p) raises
\* AlreadyExists.
C9_ErrorsAreClassified ==
    [][/\ (/\ last'.on = "fs"
           /\ last'.op \in Six
           /\ last'.calls # <<>>
           /\ last'.f[1].t = "error"
           /\ ~NotEmptyCase(last'.op, last'.f[1].text))
          => Classified(last)' /\ Classified(twin)'
       /\ (/\ last'.on = "fs"
           /\ last'.op = "read_file"
           /\ last'.f = <<NoFault>>
           /\ NodeOf(world, last'.path) = "none")
          => /\ last'.res.exc = "SandboxFileNotFoundError"
             /\ twin'.res.exc = "SandboxFileNotFoundError"
       /\ (/\ last.on = "fs"
           /\ last.op = "mkdir"
           /\ last.res.status = "ok"
           /\ last'.op = "mkdir"
           /\ last'.path = last.path
           /\ last'.f = <<NoFault>>)
          => /\ last'.res.exc = "SandboxFileExistsError"
             /\ twin'.res.exc = "SandboxFileExistsError"]_vars

C9_Witness ==
    /\ last.on = "fs"
    /\ last.op = "mkdir"
    /\ last.f = <<NoFault>>
    /\ last.res.exc = "SandboxFileExistsError"
    /\ NodeOf(world, last.path) = "dir"

\* A read_file that returns, right after a write_file of the same path and
\* the same encoding that succeeded.
ReadAfterWrite ==
    /\ last.on = "fs"
    /\ last.op = "write_file"
    /\ last.res.status = "ok"
    /\ last'.on = "fs"
    /\ last'.op = "read_file"
    /\ last'.path = last.path
    /\ last'.args[2] = last.args[3]
    /\ last'.res.status = "ok"

\* C10 as stated: write(p, c, encoding) then read(p, encoding) returns
\* content equal to c, a string or bytes, tagged with the encoding.
C10_RoundTripReturnsContent ==
    [][ReadAfterWrite
       => /\ Str(last'.res.value.content) = last.args[2]
          /\ last'.res.value.encoding = last.args[3]]_vars

Returned(v, c, encoding) ==
    /\ v.encoding = encoding
    /\ c.t = "str" => v.content = c.v
    /\ c.t = "bytes" => Utf8Encode(v.content) = c.v

\* C10 as amended: the read returns a string, tagged with the encoding: c
\* itself when c is a string, and the string whose UTF-8 encoding is c when c
\* is bytes.
C10_RoundTripReturnsText ==
    [][ReadAfterWrite
       => /\ Returned(last'.res.value, last.args[2], last.args[3])
          /\ twin'.res.status = "ok"
          /\ Returned(twin'.res.value, last.args[2], last.args[3])]_vars

C10_Witness ==
    /\ last.on = "fs"
    /\ last.op = "read_file"
    /\ last.res.status = "ok"
    /\ last.res.value = FileInfo(<<233>>, "base64")

ShellOps == {"rename_file", "move_file", "rm", "exists", "is_file", "is_dir"}

\* The fixed words of the command of the call recorded in last.
Verb ==
    IF last.op \in {"rename_file", "move_file"} THEN <<MV>>
    ELSE IF last.op = "rm"
    THEN IF last.args[2] THEN <<RM, FlagRF>> ELSE <<RM>>
    ELSE IF last.op = "exists" THEN <<TEST, FlagE>>
    ELSE IF last.op = "is_file" THEN <<TEST, FlagF>>
    ELSE <<TEST, FlagD>>

\* Its path arguments, each as the characters the caller gave.
PathWords ==
    IF last.op \in {"rename_file", "move_file"}
    THEN <<Chars(last.path), Chars(last.args[2])>>
    ELSE <<Chars(last.path)>>

\* x issued one execute call whose command line the shell reads as one
\* command: the fixed words, then one word per path argument.
OneCommand(x) ==
    /\ Len(x.calls) = 1
    /\ x.calls[1].api = "execute"
    /\ ShellParse(x.calls[1].args[1]) = <<Verb \o PathWords>>

Injected ==
    \/ last.path \in InjectPaths
    \/ last.op \in {"rename_file", "move_file"} /\ last.args[2] \in InjectPaths

Refused(x) ==
    IF last.op \in Probes THEN x.res.status = "ok" /\ x.res.value = FALSE
    ELSE x.res.exc = "SandboxFileNotFoundError"

RmForce == last.op = "rm" /\ last.args[2]

TextOf(c) == IF c.t = "bytes" THEN Utf8Decode(c.v).v ELSE c.v

\* The answer of the client to the k-th write of the list, the writes before
\* it having been made one after the other from sandbox w.
RECURSIVE Answered(_, _, _, _)
Answered(w, files, fs, k) ==
    LET before == IF k = 1 THEN w ELSE Answered(w, files, fs, k - 1).w
    IN  ClientCall(before, "write_file",
                   <<files[k].path, TextOf(files[k].content)>>, FaultAt(fs, k))

Failed(r) == r.t = "raise" \/ r.error # <<>>

\* What C12 says of a write_files(files) that started in sandbox w: x is its
\* outcome and fs the faults of its writes.
Batch(x, w, files, fs) ==
    LET n == Len(x.calls)
    IN  /\ n <= Len(files)
        /\ \A k \in 1..n :
             x.calls[k] = WriteOf(files[k].path, TextOf(files[k].content))
        /\ \A k \in 1..n :
             Failed(Answered(w, files, fs, k))
                => k = n /\ x.res.status = "raise"
        /\ x.res.status = "ok" => n = Len(files)

\* C12: write_files, sync and async, issues one write per entry in the order
\* of the list; when the write of entry i fails the failure is raised, no
\* write is issued for an entry after i, and the sandbox is as the writes
\* before i left it.
C12_FirstFailureAborts ==
    [][(last'.on = "fs" /\ last'.op = "write_files")
       => /\ Batch(last', world, last'.args[2], last'.f)
          /\ Batch(twin', world, last'.args[2], last'.f)
          /\ world' = IF last'.calls = <<>> THEN world
                      ELSE Answered(world, last'.args[2], last'.f,
                                    Len(last'.calls)).w]_vars

C12_Witness ==
    /\ last.on = "fs"
    /\ last.op = "write_files"
    /\ last.kind = "async"
    /\ Len(last.args[2]) = 3
    /\ last.res.status = "raise"
    /\ Len(last.calls) = 2
    /\ last.args[2][1].path = "/d"
    /\ world.node["/d"] = "file"

\* What the block recorded in x' does on a fresh handle of the given kind.
BlockOf(kind) ==
    Body(FileIO(kind, last'.path, last'.args[2]), world, last'.args[3],
         last'.args[4], last'.f[1])

Exits(x, o) ==
    /\ x.calls = o.calls
    /\ x.res.status = o.res.status
    /\ o.res.status = "raise" => x.res = o.res

\* C13: close() sets the closed flag and nothing else, makes no remote call
\* and succeeds on a handle that is closed already; a managed block leaves
\* its handle closed however its body ends, and an exception of the body
\* reaches the caller.
C13_CloseOnlySetsFlag ==
    [][/\ (last'.on = "handle" /\ last'.op = "close")
          => /\ handles' = [handles EXCEPT ![last'.h].closed = TRUE]
             /\ world' = world
             /\ last'.calls = <<>> /\ last'.res.status = "ok"
             /\ twin'.calls = <<>> /\ twin'.res.status = "ok"
       /\ (last'.on = "handle" /\ last'.op = "with")
          => /\ handles' = Append(handles,
                                  [kind |-> last'.kind, path |-> last'.path,
                                   mode |-> last'.args[2], closed |-> TRUE])
             /\ world' = BlockOf(last'.kind).w
             /\ Exits(last', BlockOf(last'.kind))]_vars

C13_Witness ==
    /\ last.on = "handle"
    /\ last.op = "with"
    /\ last.kind = "async"
    /\ last.args[3] = "write"
    /\ last.res.status = "raise"
    /\ last.res.exc = "SandboxFilesystemError"
    /\ handles[last.h].closed

IsWrite(c) == c.api = "write_file"

\* The remote writes the sandbox has served for the callers, in order.
Writes == SelectSeq(callers.processed, IsWrite)

\* The content the callers found: what the write before them left.
Prior ==
    IF last.op = "write_file" /\ last.res.status = "ok"
    THEN TextOf(last.args[2]) ELSE <<>>

Finished(t) == callers.task[t].pc = "done"

\* Callers t and u have both appended, and nobody else has started.
TwoAppends(t, u) ==
    /\ t # u
    /\ \A v \in Callers :
         IF v \in {t, u}
         THEN Finished(v) /\ callers.task[v].how = "a"
         ELSE callers.task[v].pc = "idle"

\* C14: under every interleaving of callers that write to one path, no write
\* is refused; the path holds the payload of the remote write served last;
\* an append sends what it read followed by its content, so that of two
\* appends of c1 and c2 onto e the path holds e+c1, e+c2, e+c1+c2 or e+c2+c1.
C14_LastWriteWins ==
    /\ \A t \in Callers : Finished(t) => callers.task[t].status = "ok"
    /\ Writes # <<>>
         => /\ NodeOf(world, RacePath) = "file"
            /\ world.data[RacePath] = Writes[Len(Writes)].args[2]
    /\ \A t \in Callers :
         Finished(t)
           => callers.task[t].sent
                = IF callers.task[t].how = "a"
                  THEN callers.task[t].existing \o Payload(t)
                  ELSE Payload(t)
    /\ \A t, u \in Callers :
         TwoAppends(t, u)
           => world.data[RacePath]
                \in {Prior \o Payload(t), Prior \o Payload(u),
                     Prior \o Payload(t) \o Payload(u),
                     Prior \o Payload(u) \o Payload(t)}

\* Two appends onto "e" have both ended without error and the second one's
\* content is lost.
C14_Witness ==
    /\ TwoAppends(1, 2)
    /\ Prior = <<101>>
    /\ callers.task[2].status = "ok"
    /\ callers.task[2].sent = <<101>> \o Payload(2)
    /\ world.data[RacePath] = <<101>> \o Payload(1)

============================================================================
